---- MODULE Spec2Model ----
(***************************************************************************)
(* Model of the streaming chat decoder (OllamaService.chat) and of the     *)
(* agent loop of the App component (handleSend, handleStop,                *)
(* executeAgentLoop).  One action per resumption of an async function:     *)
(* an action runs the code from one `await` to the next.                   *)
(***************************************************************************)
EXTENDS Integers, Sequences, FiniteSets, TLC

\* ---------------------------------------------------------------- bounds
MaxRuns == 2        \* handleSend invocations explored
MaxChunks == 1      \* network chunks delivered to one chat() call
MaxToolCalls == 5   \* tool calls that the model sends in all
MaxStream == 3      \* chunks of a response decoded on its own
MaxArgLen == 5      \* tokens of an argument text normalized on its own
MaxRejects == 1     \* searchWeb calls that reject, in all
MaxModels == 2      \* models that /api/tags lists
MaxChecks == 2      \* checkConnection invocations explored

\* ------------------------------------------------------ program constants
MAX_LOOPS == 5      \* const MAX_LOOPS = 5
HttpStatus == 500   \* the non-success status of the scenarios

Runs == 1..MaxRuns
NoId == 0

VARIABLES
  sessions,            \* the one session: [exists, title, messages]
  currentSessionId,    \* "none" or "s1"
  isTyping,
  isStoppingRef,
  abortControllerRef,  \* id of the controller in the ref, NoId when null
  aborted,             \* controllers whose signal has fired
  activeTool,
  serverStatus,
  statusMessage,
  timerRef,
  nextId,              \* generateId()
  titlePending,        \* generateTitle() promises not yet settled
  titleReqs,           \* generateTitle() calls issued so far
  toolCallsSent,       \* tool calls the model has sent so far
  toolRejects,         \* searchWeb calls that have rejected so far
  stream,              \* chunks of a response fixed in advance, still to deliver
  run,                 \* the activations of executeAgentLoop
  parsed,              \* an argument text normalized on its own: [input, done, result]
  listing,             \* one call of listModels: [pc, models, answers, hasTools]
  connection,          \* [connectionStatus, models, selectedModel, calls of checkConnection]
  capability           \* one call of an external capability: [fn, env, done, result]

vars == <<sessions, currentSessionId, isTyping, isStoppingRef,
          abortControllerRef, aborted, activeTool, serverStatus,
          statusMessage, timerRef, nextId, titlePending, titleReqs,
          toolCallsSent, toolRejects, stream, run, parsed, listing,
          connection, capability>>

\* ------------------------------------------------------------ data model
NoCalls == <<>>

Msg(id, role, content) ==
  [id |-> id, role |-> role, content |-> content, tool_calls |-> NoCalls,
   tool_call_id |-> "none", name |-> "none"]

\* A JSON value as far as the tool loop looks at it: its type and, for an
\* object, the type of its member `query` ("undefined" when it has none).
JsonValue(type, query) == [type |-> type, query |-> query]
EmptyObject == JsonValue("object", "undefined")

\* What tc.function.arguments may hold: a text (a sequence of tokens), an object
\* the server has parsed already, or anything else.  Tokens of a text:
\*   "{" "}" "," ":"   punctuation          " "      white space
\*   "q"  the quoted key "query"           "k"      another quoted key
\*   "bq" the bare word query              "null"   the word null
\*   "v"  a quoted string                  "fo" "fc"  the fences ```json and ```
StringArg(text) == [kind |-> "string", text |-> text, value |-> EmptyObject]
ObjectArg(value) == [kind |-> "object", text |-> <<>>, value |-> value]
OtherArg == [kind |-> "other", text |-> <<>>, value |-> EmptyObject]

\* The tool calls the model may return: id, function name, raw arguments.
ToolCallOf(tok) ==
  CASE tok = "t1" -> [id |-> "c1", name |-> "search_web",
                      arguments |-> StringArg(<<"{", "q", ":", "v", "}">>)]
    [] tok = "t2" -> [id |-> "c2", name |-> "sleep_agent",
                      arguments |-> StringArg(<<"}", "{">>)]
    [] tok = "t3" -> [id |-> "c3", name |-> "other_tool",
                      arguments |-> StringArg(<<"{", "q", ":", "v", "}">>)]
    [] OTHER      -> [id |-> "c4", name |-> "search_web",
                      arguments |-> StringArg(<<"null">>)]

ToolTokens == {"t1", "t2", "t3", "t4"}
ContentTokens == {"ca", "cb", "ce"}
FieldTokens == ToolTokens \cup ContentTokens \cup {"s", "s2", "d"}

ContentOf(tok) ==
  CASE tok = "ca" -> <<"a">>
    [] tok = "cb" -> <<"b">>
    [] OTHER      -> <<>>

\* ----------------------------------------------------------- text helpers
RECURSIVE SplitLines(_)
\* chunk.split('\n')
SplitLines(s) ==
  IF \A i \in 1..Len(s) : s[i] # "\n" THEN <<s>>
  ELSE LET k == CHOOSE i \in 1..Len(s) :
                  s[i] = "\n" /\ \A j \in 1..(i-1) : s[j] # "\n"
       IN <<SubSeq(s, 1, k-1)>> \o SplitLines(SubSeq(s, k+1, Len(s)))

RECURSIVE Trim(_)
\* line.trim()
Trim(s) ==
  IF s = <<>> THEN s
  ELSE IF Head(s) = " " THEN Trim(Tail(s))
  ELSE IF s[Len(s)] = " " THEN Trim(SubSeq(s, 1, Len(s)-1))
  ELSE s

\* JSON.parse(line) succeeds on an object: "{" fields "}"
Parsable(line) ==
  LET t == Trim(line) IN
    /\ Len(t) >= 2
    /\ t[1] = "{"
    /\ t[Len(t)] = "}"
    /\ \A i \in 2..(Len(t)-1) : t[i] \in FieldTokens

RECURSIVE CollectCalls(_)
CollectCalls(fs) ==
  IF fs = <<>> THEN <<>>
  ELSE (IF Head(fs) \in ToolTokens THEN <<ToolCallOf(Head(fs))>> ELSE <<>>)
       \o CollectCalls(Tail(fs))

RECURSIVE LastContent(_)
LastContent(fs) ==
  IF fs = <<>> THEN <<>>
  ELSE IF fs[Len(fs)] \in ContentTokens THEN ContentOf(fs[Len(fs)])
  ELSE LastContent(SubSeq(fs, 1, Len(fs)-1))

\* the status field of a record with the fields fs, "" when it has none
StatusOf(fs) ==
  IF \E i \in 1..Len(fs) : fs[i] = "s" THEN "pulling"
  ELSE IF \E i \in 1..Len(fs) : fs[i] = "s2" THEN "verifying"
  ELSE ""

\* the record JSON.parse returns for a parsable line
ParseRecord(line) ==
  LET t  == Trim(line)
      fs == SubSeq(t, 2, Len(t)-1)
  IN [status     |-> StatusOf(fs),
      content    |-> LastContent(fs),
      tool_calls |-> CollectCalls(fs),
      done       |-> \E i \in 1..Len(fs) : fs[i] = "d"]

\* ------------------------------------------------------------- the state
NoError == [name |-> "none", message |-> <<>>]

\* the surroundings of one call of a capability of geminiService, and its result
NoEnv == [apiKey |-> FALSE, backend |-> "none", sources |-> "none", input |-> "none"]
NoResult == [raised |-> FALSE, text |-> "none"]

\* one invocation of checkConnection that has not started
IdleCheck ==
  [pc |-> "idle",           \* idle, probe, listing, done
   selectedModel |-> "",    \* selectedModel as the invoking render captured it
   probe |-> "none",        \* how the fetch of testConnection ended
   ok |-> FALSE,            \* what testConnection returned
   listed |-> "none",       \* how listModels ended: "none", "raised", "returned"
   probeRaised |-> FALSE,   \* testConnection raised instead of returning
   endStatus |-> "none"]    \* connectionStatus when the invocation ended
AbortError == [name |-> "AbortError", message |-> <<"aborted">>]
Failure(msg) == [name |-> "Error", message |-> msg]

IdleRun ==
  [pc |-> "idle",
   \* locals of executeAgentLoop
   closure |-> [exists |-> FALSE, messages |-> <<>>],  \* `sessions` as captured
   currentConversation |-> <<>>,
   loopCount |-> 0,
   assistantId |-> NoId,
   response |-> [content |-> <<>>, tool_calls |-> NoCalls, defined |-> FALSE],
   tcIdx |-> 0,
   toolResults |-> <<>>,
   \* locals of chat()
   signal |-> NoId,
   fullContent |-> <<>>,
   toolCalls |-> <<>>,
   nReads |-> 0,
   \* observations
   outcome |-> "none",
   err |-> NoError,
   errorField |-> "unread",  \* what the error body carried
   chatCalls |-> 0,          \* chat() calls issued
   placeholders |-> 0,       \* assistant messages appended
   toolMsgs |-> <<>>,        \* tool_call_ids of the tool messages appended, this pass
   invoked |-> <<>>,         \* tool_call_ids whose capability was invoked, this pass
   raised |-> <<>>,          \* [id, message] of the calls whose try raised, this pass
   nInvoked |-> 0,           \* capabilities invoked in the run
   nToolMsgs |-> 0,          \* tool messages appended in the run
   deltas |-> <<>>,          \* arguments of onChunk, this pass
   recContents |-> <<>>,     \* content of the records that carried one, this pass
   nStatus |-> 0,            \* onStatus calls, this pass
   statuses |-> <<>>,        \* what onStatus was called with, this pass
   retStatuses |-> <<>>,     \* statuses at the last return of chat()
   eof |-> FALSE,            \* the last reader.read() resolved with done: true
   retDeltas |-> <<>>,       \* deltas at the last return of chat()
   retRecContents |-> <<>>,  \* recContents at the last return of chat()
   nRecords |-> 0,           \* lines parsed into a record, this pass
   returns |-> 0,            \* chat() calls that returned a result
   toolPasses |-> 0,         \* chat() calls that returned tool calls
   stopPc |-> "none",        \* where the run was when handleStop was last invoked
   atStop |-> [chatCalls |-> 0, placeholders |-> 0, nToolMsgs |-> 0, nRecords |-> 0,
               nInvoked |-> 0],
   overtaken |-> FALSE,      \* handleSend ran while the run, stopped, awaited a tool
   sent |-> <<>>,            \* the conversation given to the latest chat() call
   prevSent |-> <<>>,        \* the conversation given to the chat() call before it
   received |-> <<>>,        \* the chunks read by the chat() call of a replayed response
   recCalls |-> <<>>,        \* tool calls of the records parsed, this pass
   retRecCalls |-> <<>>,     \* recCalls at the last return of chat()
   retCounts |-> [records |-> 0, status |-> 0],
                             \* nRecords and nStatus at the last return of chat()
   first |-> [content |-> <<>>, tool_calls |-> NoCalls, defined |-> FALSE]]
                             \* what the first chat() call of the run returned

W ==
  [sessions |-> sessions, currentSessionId |-> currentSessionId,
   isTyping |-> isTyping, isStoppingRef |-> isStoppingRef,
   abortControllerRef |-> abortControllerRef, aborted |-> aborted,
   activeTool |-> activeTool, serverStatus |-> serverStatus,
   statusMessage |-> statusMessage, timerRef |-> timerRef, nextId |-> nextId,
   titlePending |-> titlePending, titleReqs |-> titleReqs,
   toolCallsSent |-> toolCallsSent, toolRejects |-> toolRejects,
   stream |-> stream, run |-> run,
   parsed |-> parsed, listing |-> listing, connection |-> connection,
   capability |-> capability]

Commit(w) ==
  /\ sessions' = w.sessions
  /\ currentSessionId' = w.currentSessionId
  /\ isTyping' = w.isTyping
  /\ isStoppingRef' = w.isStoppingRef
  /\ abortControllerRef' = w.abortControllerRef
  /\ aborted' = w.aborted
  /\ activeTool' = w.activeTool
  /\ serverStatus' = w.serverStatus
  /\ statusMessage' = w.statusMessage
  /\ timerRef' = w.timerRef
  /\ nextId' = w.nextId
  /\ titlePending' = w.titlePending
  /\ titleReqs' = w.titleReqs
  /\ toolCallsSent' = w.toolCallsSent
  /\ toolRejects' = w.toolRejects
  /\ stream' = w.stream
  /\ run' = w.run
  /\ parsed' = w.parsed
  /\ listing' = w.listing
  /\ connection' = w.connection
  /\ capability' = w.capability

\* the state after construction of the component
InitW ==
  [sessions |-> [exists |-> FALSE, title |-> "none", messages |-> <<>>],
   currentSessionId |-> "none",
   isTyping |-> FALSE,
   isStoppingRef |-> FALSE,
   abortControllerRef |-> NoId,
   aborted |-> {},
   activeTool |-> "none",
   serverStatus |-> "none",
   statusMessage |-> "Idle",
   timerRef |-> FALSE,
   nextId |-> 1,
   titlePending |-> 0,
   titleReqs |-> 0,
   toolCallsSent |-> 0,
   toolRejects |-> 0,
   stream |-> <<>>,
   run |-> [r \in Runs |-> IdleRun],
   parsed |-> [input |-> StringArg(<<>>), done |-> FALSE, result |-> EmptyObject],
   listing |-> [pc |-> "idle", models |-> <<>>, answers |-> <<>>, hasTools |-> <<>>],
   connection |-> [connectionStatus |-> "IDLE", models |-> 0, selectedModel |-> "",
                   calls |-> [c \in 1..MaxChecks |-> IdleCheck]],
   capability |-> [fn |-> "none", env |-> NoEnv, done |-> FALSE, result |-> NoResult]]

StateIs(w) ==
  /\ sessions = w.sessions
  /\ currentSessionId = w.currentSessionId
  /\ isTyping = w.isTyping
  /\ isStoppingRef = w.isStoppingRef
  /\ abortControllerRef = w.abortControllerRef
  /\ aborted = w.aborted
  /\ activeTool = w.activeTool
  /\ serverStatus = w.serverStatus
  /\ statusMessage = w.statusMessage
  /\ timerRef = w.timerRef
  /\ nextId = w.nextId
  /\ titlePending = w.titlePending
  /\ titleReqs = w.titleReqs
  /\ toolCallsSent = w.toolCallsSent
  /\ toolRejects = w.toolRejects
  /\ stream = w.stream
  /\ run = w.run
  /\ parsed = w.parsed
  /\ listing = w.listing
  /\ connection = w.connection
  /\ capability = w.capability

Init == StateIs(InitW)

\* --------------------------------------------------- session list updates
\* setSessions(... [...s.messages, m] ...)
AppendMessage(w, m) ==
  IF w.sessions.exists
  THEN [w EXCEPT !.sessions.messages = Append(@, m)]
  ELSE w

AddContentToAssistants(w, id, chunk) ==
  [w EXCEPT !.sessions.messages =
     [i \in 1..Len(@) |-> IF @[i].role = "assistant"
                          THEN [@[i] EXCEPT !.content = @ \o chunk] ELSE @[i]]]

\* setSessions(... m.id === id ? { ...m, content: m.content + chunk } : m ...)
AddContent(w, id, chunk) ==
  [w EXCEPT !.sessions.messages =
     [i \in 1..Len(@) |-> IF @[i].id = id
                          THEN [@[i] EXCEPT !.content = @ \o chunk] ELSE @[i]]]

\* setSessions(... m.id === id ? { ...m, content: `Error: ...` } : m ...)
SetContent(w, id, content) ==
  [w EXCEPT !.sessions.messages =
     [i \in 1..Len(@) |-> IF @[i].id = id
                          THEN [@[i] EXCEPT !.content = content] ELSE @[i]]]

\* setSessions(... m.id === id ? { ...m, tool_calls } : m ...)
SetToolCalls(w, id, tcs) ==
  [w EXCEPT !.sessions.messages =
     [i \in 1..Len(@) |-> IF @[i].id = id
                          THEN [@[i] EXCEPT !.tool_calls = tcs] ELSE @[i]]]

\* --------------------------------------------------------- executeAgentLoop
TeardownKeepsTyping(w, r, outcome) ==
  [w EXCEPT !.activeTool = "none", !.serverStatus = "none",
            !.statusMessage = "Idle", !.timerRef = FALSE,
            !.run[r].pc = "done", !.run[r].outcome = outcome]

\* the statements after the while loop
Teardown(w, r, outcome) ==
  [w EXCEPT !.isTyping = FALSE, !.activeTool = "none", !.serverStatus = "none",
            !.statusMessage = "Idle", !.timerRef = FALSE,
            !.run[r].pc = "done", !.run[r].outcome = outcome]

LoopConditionInclusive(loopCount) == loopCount <= MAX_LOOPS

\* while (loopCount < MAX_LOOPS)
LoopCondition(loopCount) == loopCount < MAX_LOOPS

ChatLocalsKept(old) == [fullContent |-> old.fullContent, toolCalls |-> old.toolCalls]

\* let fullContent = ''; let toolCalls: ToolCall[] = [];  (old: the run's record)
ChatLocals(old) == [fullContent |-> <<>>, toolCalls |-> <<>>]

ExhaustedWithError(w, r) ==
  Teardown(SetContent(w, w.run[r].assistantId, <<"Error: ", "too many passes">>),
           r, "LoopExhausted")

\* the while condition has failed: control falls to the statements after the loop
Exhausted(w, r) == Teardown(w, r, "LoopExhausted")

PlaceholderWithText(id) == Msg(id, "assistant", <<"...">>)

\* const assistantMessage = { id: assistantId, role: 'assistant', content: '' }
Placeholder(id) == Msg(id, "assistant", <<>>)

\* The head of the while loop up to the first await of chat().
LoopTop(w, r) ==
  IF ~LoopCondition(w.run[r].loopCount) THEN Exhausted(w, r)
  ELSE IF w.isStoppingRef THEN Teardown(w, r, "Cancelled")
  ELSE
    LET n  == w.run[r].loopCount + 1
        id == w.nextId
        w1 == AppendMessage(w, Placeholder(id))
    IN [w1 EXCEPT !.nextId = id + 2,
                  !.statusMessage = "Thinking",
                  !.abortControllerRef = id + 1,
                  !.run[r].loopCount = n,
                  !.run[r].assistantId = id,
                  !.run[r].placeholders = @ + 1,
                  !.run[r].signal = id + 1,
                  !.run[r].fullContent = ChatLocals(w.run[r]).fullContent,
                  !.run[r].toolCalls = ChatLocals(w.run[r]).toolCalls,
                  !.run[r].nReads = 0,
                  !.run[r].recCalls = <<>>,
                  !.run[r].chatCalls = @ + 1,
                  !.run[r].sent = w.run[r].currentConversation,
                  !.run[r].prevSent = w.run[r].sent,
                  !.run[r].deltas = <<>>,
                  !.run[r].recContents = <<>>,
                  !.run[r].nStatus = 0,
                  !.run[r].statuses = <<>>,
                  !.run[r].nRecords = 0,
                  !.run[r].pc = "fetch"]

\* the message the catch block shows for a raised error
ErrorText(e) == <<"Error: ">> \o e.message

IsCancellationAlways(w, e) == TRUE

\* is the raised error the cancellation condition
IsCancellation(w, e) == e.name = "AbortError"

\* catch (e) { ... break; }
Catch(w, r, e) ==
  LET w0 == [w EXCEPT !.run[r].err = e] IN
  IF ~IsCancellation(w, e)
  THEN Teardown(SetContent(w0, w.run[r].assistantId, ErrorText(e)), r, "Failed")
  ELSE Teardown(w0, r, "Cancelled")

\* -------------------------------------------------- Tool Dispatch Registry
\* the words the repair takes for a bare key: [a-zA-Z0-9_]+
WordTokens == {"bq", "null"}

NotSpace(tok) == tok # " "
NotFence(tok) == tok \notin {"fo", "fc"}

RECURSIVE SkipSpaces(_)
\* \s*
SkipSpaces(t) == IF t # <<>> /\ Head(t) = " " THEN SkipSpaces(Tail(t)) ELSE t

RECURSIVE WordRun(_)
\* the number of leading word tokens: adjacent words read as one word
WordRun(t) == IF t # <<>> /\ Head(t) \in WordTokens THEN 1 + WordRun(Tail(t)) ELSE 0

\* input.replace(/```json/g, '').replace(/```/g, '')
StripFences(text) == SelectSeq(text, NotFence)

RECURSIVE QuoteBareKeys(_)
\* input.replace(/([{,])\s*([a-zA-Z0-9_]+)\s*:/g, '$1"$2":')
QuoteBareKeys(t) ==
  IF t = <<>> THEN <<>>
  ELSE IF Head(t) \in {"{", ","}
  THEN LET a == SkipSpaces(Tail(t))
           n == WordRun(a)
           b == SkipSpaces(SubSeq(a, n + 1, Len(a)))
           key == IF n = 1 /\ a[1] = "bq" THEN "q" ELSE "k"
       IN IF n >= 1 /\ b # <<>> /\ Head(b) = ":"
          THEN <<Head(t), key, ":">> \o QuoteBareKeys(Tail(b))
          ELSE <<Head(t)>> \o QuoteBareKeys(Tail(t))
  ELSE <<Head(t)>> \o QuoteBareKeys(Tail(t))

ParseRaised == [ok |-> FALSE, rest |-> <<>>, value |-> EmptyObject]

RECURSIVE ParseValue(_), ParseMembers(_, _)
\* JSON.parse on a text without white space: a value at the head of t
ParseValue(t) ==
  IF t = <<>> THEN ParseRaised
  ELSE IF Head(t) = "null"
  THEN [ok |-> TRUE, rest |-> Tail(t), value |-> JsonValue("null", "undefined")]
  ELSE IF Head(t) = "v"
  THEN [ok |-> TRUE, rest |-> Tail(t), value |-> JsonValue("string", "undefined")]
  ELSE IF Head(t) = "{"
  THEN IF Len(t) >= 2 /\ t[2] = "}"
       THEN [ok |-> TRUE, rest |-> SubSeq(t, 3, Len(t)), value |-> EmptyObject]
       ELSE ParseMembers(Tail(t), "undefined")
  ELSE ParseRaised

\* the members of an object from t on; query: the type of `query` so far
ParseMembers(t, query) ==
  IF Len(t) < 3 \/ t[1] \notin {"q", "k"} \/ t[2] # ":" THEN ParseRaised
  ELSE LET v  == ParseValue(SubSeq(t, 3, Len(t)))
           q2 == IF t[1] = "q" THEN v.value.type ELSE query
       IN IF ~v.ok \/ v.rest = <<>> THEN ParseRaised
          ELSE IF Head(v.rest) = "}"
          THEN [ok |-> TRUE, rest |-> Tail(v.rest), value |-> JsonValue("object", q2)]
          ELSE IF Head(v.rest) = "," THEN ParseMembers(Tail(v.rest), q2)
          ELSE ParseRaised

\* JSON.parse(text): white space between tokens is insignificant
JSONParse(text) ==
  LET p == ParseValue(SelectSeq(text, NotSpace))
  IN IF p.ok /\ p.rest = <<>> THEN [ok |-> TRUE, value |-> p.value]
     ELSE [ok |-> FALSE, value |-> EmptyObject]

safeJsonParseStrictOnly(input) ==
  IF input.kind = "object" THEN input.value
  ELSE IF input.kind # "string" THEN EmptyObject
  ELSE LET strict == JSONParse(Trim(StripFences(input.text)))
       IN IF strict.ok THEN strict.value ELSE EmptyObject

\* safeJsonParse(input)
safeJsonParse(input) ==
  IF input.kind = "object" THEN input.value
  ELSE IF input.kind # "string" THEN EmptyObject
  ELSE LET strict == JSONParse(Trim(StripFences(input.text)))
       IN IF strict.ok THEN strict.value
          ELSE LET fixed == JSONParse(QuoteBareKeys(input.text))
               IN IF fixed.ok THEN fixed.value ELSE EmptyObject

\* reading args.query / args.seconds raises a TypeError when args is null
ArgsReadThrows(args) == args.type = "null"

CapabilityDefaultsToSearch(name) ==
  IF name = "sleep_agent" THEN "setTimeout" ELSE "searchWeb"

\* the capability the name selects; "none" when the name is not registered
Capability(name) ==
  CASE name = "search_web"  -> "searchWeb"
    [] name = "sleep_agent" -> "setTimeout"
    [] OTHER                -> "none"

ToolMsgUnlabelled(id, result, tc) == Msg(id, "tool", result)

ToolMsg(id, result, tc) ==
  [id |-> id, role |-> "tool", content |-> result, tool_calls |-> NoCalls,
   tool_call_id |-> tc.id, name |-> tc.name]

AppendResultInFront(toolResults, toolMsg) == <<toolMsg>> \o toolResults

\* toolResults.push(toolMsg)
AppendResult(toolResults, toolMsg) == Append(toolResults, toolMsg)

\* the check `if (isStoppingRef.current) break;` made before a result is appended
StopBeforeAppend(w) == w.isStoppingRef

NextConversationWithoutResults(cc, am, toolResults) == cc \o <<am>>

\* [...currentConversation, { ...assistantMessage, content, tool_calls }, ...toolResults]
NextConversation(cc, am, toolResults) == cc \o <<am>> \o toolResults

RECURSIVE ToolLoop(_, _, _), AfterTool(_, _, _, _)

\* the TypeError of args.query / args.seconds on null
ArgsTypeError(tc) ==
  [name |-> "TypeError",
   message |-> IF tc.name = "search_web"
               THEN <<"Cannot read properties of null (reading 'query')">>
               ELSE <<"Cannot read properties of null (reading 'seconds')">>]

ToolCatchRethrows(w, r, i, e) == Catch(w, r, e)

\* catch (e) { result = `Tool Error: ${...}` } and the statements after it
ToolCatch(w, r, i, e) ==
  AfterTool([w EXCEPT !.run[r].raised =
                        Append(@, [id |-> w.run[r].response.tool_calls[i].id,
                                   message |-> e.message])],
            r, i, <<"Tool Error: ">> \o e.message)

\* for (const tc of response.tool_calls), from the i-th call on, up to the next
\* await; after the loop, the statements that lead to the next pass.
ToolLoop(w, r, i) ==
  LET tcs == w.run[r].response.tool_calls IN
  IF i > Len(tcs) \/ w.isStoppingRef
  THEN \* loop left; if (isStoppingRef.current) break;
       IF w.isStoppingRef THEN Teardown(w, r, "Cancelled")
       ELSE LET am == [Msg(w.run[r].assistantId, "assistant", w.run[r].response.content)
                         EXCEPT !.tool_calls = tcs]
                w1 == [w EXCEPT !.activeTool = "none",
                                !.run[r].currentConversation =
                                    NextConversation(@, am, w.run[r].toolResults)]
            IN LoopTop(w1, r)
  ELSE LET tc   == tcs[i]
           args == safeJsonParse(tc.arguments)
           w1   == [w EXCEPT !.statusMessage = "Running",
                             !.activeTool = tc.name,
                             !.run[r].tcIdx = i]
       IN IF Capability(tc.name) = "none" THEN AfterTool(w1, r, i, <<>>)
          ELSE IF ArgsReadThrows(args) THEN ToolCatch(w1, r, i, ArgsTypeError(tc))
          ELSE [w1 EXCEPT !.run[r].pc = "tool",
                          !.run[r].invoked = Append(@, tc.id),
                          !.run[r].nInvoked = @ + 1]

EmitToolMessageLater(w, tm) == w

\* setSessions(... messages: [...s.messages, toolMsg] ...) inside the for loop
EmitToolMessage(w, tm) == AppendMessage(w, tm)

\* the statements after the try/catch of one tool call
AfterTool(w, r, i, result) ==
  IF StopBeforeAppend(w) THEN Teardown(w, r, "Cancelled")
  ELSE LET tc == w.run[r].response.tool_calls[i]
           tm == ToolMsg(w.nextId, result, tc)
           w1 == EmitToolMessage(w, tm)
           w2 == [w1 EXCEPT !.nextId = @ + 1,
                            !.run[r].toolResults = AppendResult(@, tm),
                            !.run[r].toolMsgs = Append(@, tc.id),
                            !.run[r].nToolMsgs = @ + 1]
       IN ToolLoop(w2, r, i + 1)

\* generateTitle(sess.messages) is called and its promise is left pending
IssueTitle(w) == [w EXCEPT !.titlePending = @ + 1, !.titleReqs = @ + 1]

\* the title request of the else branch: sess is looked up in the captured sessions
TitleWanted(closure) == closure.exists /\ Len(closure.messages) <= 4

HasToolCallsAlways(resp) == TRUE

\* if (response.tool_calls): an array, even an empty one, counts as present
HasToolCalls(resp) == resp.defined

AfterChatSkipsToolsAtCap(w, r) ==
  LET resp == w.run[r].response IN
  IF HasToolCalls(resp)
  THEN IF w.isStoppingRef THEN Teardown(w, r, "Cancelled")
       ELSE IF ~LoopCondition(w.run[r].loopCount) THEN Exhausted(w, r)
       ELSE ToolLoop([SetToolCalls(w, w.run[r].assistantId, resp.tool_calls)
                        EXCEPT !.run[r].toolResults = <<>>,
                               !.run[r].toolMsgs = <<>>,
                               !.run[r].raised = <<>>,
                               !.run[r].invoked = <<>>], r, 1)
  ELSE Teardown(IF TitleWanted(w.run[r].closure) THEN IssueTitle(w) ELSE w, r, "Done")

\* chat() has returned `response`: the statements after the await
AfterChat(w, r) ==
  LET resp == w.run[r].response IN
  IF HasToolCalls(resp)
  THEN IF w.isStoppingRef THEN Teardown(w, r, "Cancelled")
       ELSE LET w1 == SetToolCalls(w, w.run[r].assistantId, resp.tool_calls)
                w2 == [w1 EXCEPT !.run[r].toolResults = <<>>,
                                 !.run[r].toolMsgs = <<>>,
                                 !.run[r].raised = <<>>,
                                 !.run[r].invoked = <<>>]
            IN ToolLoop(w2, r, 1)
  ELSE LET w1 == IF TitleWanted(w.run[r].closure)
                 THEN IssueTitle(w)
                 ELSE w
       IN Teardown(w1, r, "Done")

\* ------------------------------------------------------ OllamaService.chat
ChunkArgCumulative(fullContent, content) == fullContent

\* what onChunk is called with, given the running buffer and the record's content
ChunkArg(fullContent, content) == content

ParseFailedEndsPass(w) == [w |-> w, ret |-> TRUE]

\* catch (e) {}: JSON.parse raised on the line
ParseFailed(w) == [w |-> w, ret |-> FALSE]

EndsPassNever(json) == FALSE

\* if (json.done) return ...
EndsPass(json) == json.done

OnStatusClearsContent(w, r, status) ==
  [w EXCEPT !.serverStatus = status,
            !.run[r].nStatus = @ + 1,
            !.run[r].statuses = Append(@, status),
            !.run[r].fullContent = <<>>]

\* the status callback: (status) => { setServerStatus(status); }
OnStatus(w, r, status) ==
  [w EXCEPT !.serverStatus = status,
            !.run[r].nStatus = @ + 1,
            !.run[r].statuses = Append(@, status)]

\* the body of the for loop for one line of a chunk; ret: chat() has returned
ProcessLine(w, r, line) ==
  IF Trim(line) = <<>> THEN [w |-> w, ret |-> FALSE]
  ELSE IF ~Parsable(line) THEN ParseFailed(w)
  ELSE
    LET json == ParseRecord(line)
        w0 == [w EXCEPT !.run[r].nRecords = @ + 1]
        w1 == IF json.status # ""
              THEN OnStatus(w0, r, json.status)
              ELSE w0
        w2 == [w1 EXCEPT !.run[r].toolCalls = @ \o json.tool_calls,
                         !.run[r].recCalls = Append(@, json.tool_calls)]
        full == w2.run[r].fullContent \o json.content
        arg == ChunkArg(full, json.content)
        w3 == IF json.content # <<>>
              THEN [AddContent(w2, w2.run[r].assistantId, arg)
                      EXCEPT !.serverStatus = "none",
                             !.run[r].fullContent = full,
                             !.run[r].deltas = Append(@, arg),
                             !.run[r].recContents = Append(@, json.content)]
              ELSE w2
    IN [w |-> w3, ret |-> EndsPass(json)]

RECURSIVE ProcessLines(_, _, _)
\* for (const line of lines)
ProcessLines(w, r, lines) ==
  IF lines = <<>> THEN [w |-> w, ret |-> FALSE]
  ELSE LET one == ProcessLine(w, r, Head(lines))
       IN IF one.ret THEN one ELSE ProcessLines(one.w, r, Tail(lines))

ToolCallsDefinedAlways(toolCalls) == TRUE

\* toolCalls.length > 0 ? toolCalls : undefined -- is the field defined
ToolCallsDefined(toolCalls) == Len(toolCalls) > 0

\* toolCalls.length > 0 ? toolCalls : undefined
ResultToolCalls(toolCalls) == IF ToolCallsDefined(toolCalls) THEN toolCalls ELSE NoCalls

\* return { content: fullContent, tool_calls: ... } and the caller's continuation
Return(w, r) ==
  AfterChat([w EXCEPT !.run[r].response =
                         [content |-> w.run[r].fullContent,
                          tool_calls |-> ResultToolCalls(w.run[r].toolCalls),
                          defined |-> ToolCallsDefined(w.run[r].toolCalls)],
                      !.run[r].first =
                         IF w.run[r].returns = 0
                         THEN [content |-> w.run[r].fullContent,
                               tool_calls |-> ResultToolCalls(w.run[r].toolCalls),
                               defined |-> ToolCallsDefined(w.run[r].toolCalls)]
                         ELSE @,
                      !.run[r].retRecCalls = w.run[r].recCalls,
                      !.run[r].retCounts = [records |-> w.run[r].nRecords,
                                            status |-> w.run[r].nStatus],
                      !.run[r].returns = @ + 1,
                      !.run[r].toolPasses =
                          IF Len(w.run[r].toolCalls) > 0 THEN @ + 1 ELSE @,
                      !.run[r].retDeltas = w.run[r].deltas,
                      !.run[r].retStatuses = w.run[r].statuses,
                      !.run[r].retRecContents = w.run[r].recContents], r)

EndOfStreamDropsCalls(w, r) ==
  Return([w EXCEPT !.run[r].eof = TRUE, !.run[r].toolCalls = <<>>], r)

\* if (done) break; and the return after the while loop of chat()
EndOfStream(w, r) == Return([w EXCEPT !.run[r].eof = TRUE], r)

\* the chunks the server may deliver
Chunks ==
  { <<"{", "ca", "}", "\n">>,
    <<"{", "ca", "}", "\n", "{", "s", "cb", "d", "}", "\n">>,
    <<"{", "t1", "d", "}", "\n">>,
    <<"{", "cb", "t4", "t2", "t3", "}", "\n">>,
    <<"{", "cb">> }

NumToolCalls(chunk) == Cardinality({i \in 1..Len(chunk) : chunk[i] \in ToolTokens})

Aborted(r) == run[r].signal \in aborted

\* the run has started and is not past its teardown
Active(r) == run[r].pc \notin {"idle", "done"}

\* the run awaits inside chat()
InChat(r) == run[r].pc \in {"fetch", "errjson", "read"}

\* await fetch(...) resolves
FetchResolve(r) ==
  /\ run[r].pc = "fetch"
  /\ ~Aborted(r)
  /\ \E kind \in {"ok", "status", "nobody"} :
       CASE kind = "ok"     -> Commit([W EXCEPT !.run[r].pc = "read"])
         [] kind = "status" -> Commit([W EXCEPT !.run[r].pc = "errjson"])
         [] OTHER           -> Commit(Catch(W, r, Failure(<<"No body">>)))

\* await fetch(...) rejects: the network failed
FetchReject(r) ==
  /\ run[r].pc = "fetch"
  /\ ~Aborted(r)
  /\ Commit(Catch(W, r, [name |-> "TypeError", message |-> <<"Failed to fetch">>]))

StatusCoded == <<"Error ", ToString(HttpStatus)>>

\* throw new Error(err.error || `Error ${response.status}`), err being what
\* response.json().catch(() => ({})) gave for the body:
\*   "error_field"  a JSON object with an error text
\*   "absent"       a JSON value without one, or no JSON at all (err = {})
\*   "null"         the JSON text null (err = null)
RaisedForBody(body) ==
  CASE body = "error_field" -> Failure(<<"model not found">>)
    [] body = "null"        -> [name |-> "TypeError",
                                message |-> <<"Cannot read properties of null">>]
    [] OTHER                -> Failure(StatusCoded)

\* await response.json() settles with the error body the server sent
ErrorBody(r) ==
  /\ run[r].pc = "errjson"
  /\ ~Aborted(r)
  /\ \E body \in {"error_field", "absent", "null"} :
       Commit(Catch([W EXCEPT !.run[r].errorField = body], r, RaisedForBody(body)))

\* What the pending await of chat() raises when its signal fires.  abort()
\* rejects the pending fetch() or read() with an AbortError; a pending
\* response.json() is rejected too, but that rejection is swallowed by
\* .catch(() => ({})) and the status-coded Error is thrown instead.
RaisedOnAbort(pc) ==
  IF pc = "errjson" THEN RaisedForBody("absent") ELSE AbortError

\* await reader.read() resolves with a chunk
ReadChunk(r) ==
  /\ run[r].pc = "read"
  /\ ~Aborted(r)
  /\ run[r].nReads < MaxChunks
  /\ \E chunk \in Chunks :
       /\ toolCallsSent + NumToolCalls(chunk) <= MaxToolCalls
       /\ LET w0 == [W EXCEPT !.run[r].nReads = @ + 1,
                               !.run[r].eof = FALSE,
                               !.toolCallsSent = @ + NumToolCalls(chunk)]
              res == ProcessLines(w0, r, SplitLines(chunk))
          IN IF res.ret THEN Commit(Return(res.w, r)) ELSE Commit(res.w)

\* await reader.read() resolves with done
ReadEnd(r) ==
  /\ run[r].pc = "read"
  /\ ~Aborted(r)
  /\ Commit(EndOfStream(W, r))

\* await reader.read() rejects: the connection failed
ReadReject(r) ==
  /\ run[r].pc = "read"
  /\ ~Aborted(r)
  /\ Commit(Catch(W, r, [name |-> "TypeError", message |-> <<"network error">>]))

\* ------------------------------------------------------------ capabilities
\* await searchWeb(query) / await new Promise(setTimeout) settles
ToolSettle(r) ==
  /\ run[r].pc = "tool"
  /\ LET tc == run[r].response.tool_calls[run[r].tcIdx]
         result == IF tc.name = "search_web" THEN <<"Search results">>
                   ELSE <<"Ready after wait">>
     IN Commit(AfterTool(W, r, run[r].tcIdx, result))

\* the error of a capability call that rejects.  The catch of the tool loop
\* provides for it; searchWeb as written returns a text on every path (see
\* searchWeb below), so this is more than the present capability does.
SearchFailure == [name |-> "ReferenceError", message |-> <<"process is not defined">>]

\* await searchWeb(query) rejects
ToolReject(r) ==
  /\ run[r].pc = "tool"
  /\ run[r].response.tool_calls[run[r].tcIdx].name = "search_web"
  /\ toolRejects < MaxRejects
  /\ Commit(ToolCatch([W EXCEPT !.toolRejects = @ + 1], r, run[r].tcIdx, SearchFailure))

\* what generateTitle resolves with: the model's text, or its fallback texts
Titles == {"generated", "Chat Session"}

TitleResultDropsMessages(w, title) ==
  [w EXCEPT !.sessions.title = title, !.sessions.messages = <<>>]

\* title => setSessions(prev => prev.map(s => s.id === sessionId ? {...s, title} : s))
TitleResult(w, title) == [w EXCEPT !.sessions.title = title]

\* generateTitle(...).then(...): the promise resolves
TitleSettle ==
  /\ titlePending > 0
  /\ \E title \in Titles :
        Commit(TitleResult([W EXCEPT !.titlePending = @ - 1], title))

\* generateTitle(...).catch(() => {}): the promise rejects and nothing is done
\* (provided for by the caller; generateTitle as written does not reject)
TitleFail ==
  /\ titlePending > 0
  /\ Commit([W EXCEPT !.titlePending = @ - 1])

\* ---------------------------------------------------------------- handlers
\* The handler, followed by the continuation of the chat() call whose signal it
\* aborted: abort() rejects that call's pending promise at once, and the rejection
\* is handled (in chat, then in the catch block of executeAgentLoop) before any
\* other event is.
handleStop ==
  /\ isTyping          \* the stop button is rendered only while isTyping
  /\ LET stopped == [r \in Runs |->
                       IF Active(r)
                       THEN [run[r] EXCEPT !.stopPc = run[r].pc,
                                           !.atStop = [chatCalls |-> run[r].chatCalls,
                                                       placeholders |-> run[r].placeholders,
                                                       nToolMsgs |-> run[r].nToolMsgs,
                                                       nRecords |-> run[r].nRecords,
                                                       nInvoked |-> run[r].nInvoked]]
                       ELSE run[r]]
         w == [W EXCEPT !.aborted = IF abortControllerRef # NoId
                                    THEN @ \cup {abortControllerRef} ELSE @,
                        !.isStoppingRef = TRUE,
                        !.isTyping = FALSE,
                        !.activeTool = "none",
                        !.serverStatus = "none",
                        !.statusMessage = "Interrupted",
                        !.timerRef = FALSE,
                        !.run = stopped]
         hit == {r \in Runs : InChat(r) /\ run[r].signal = abortControllerRef}
     IN IF hit = {} THEN Commit(w)
        ELSE LET r == CHOOSE q \in hit : TRUE
             IN Commit(Catch(w, r, RaisedOnAbort(run[r].pc)))

\* the guard of handleSend: if (!textToSend || isTyping || !selectedModel) return;
\* a model is taken to be selected
SendAllowed(textToSend) == textToSend # <<>> /\ ~isTyping

\* handleSend past its guard, with executeAgentLoop up to its first await
Send(w, r, textToSend) ==
  LET closure == [exists |-> w.sessions.exists, messages |-> w.sessions.messages]
      userMessage == Msg(w.nextId, "user", textToSend)
      w1 == IF w.currentSessionId = "none"
            THEN [w EXCEPT !.sessions = [exists |-> TRUE, title |-> "New Conversation",
                                         messages |-> <<>>],
                           !.currentSessionId = "s1"]
            ELSE w
      w2 == AppendMessage(
              [w1 EXCEPT !.run = [q \in Runs |->
                  IF w.run[q].pc = "tool" /\ w.run[q].stopPc = "tool" /\ w.isStoppingRef
                  THEN [w.run[q] EXCEPT !.overtaken = TRUE] ELSE w.run[q]]],
              userMessage)
      w3 == [w2 EXCEPT !.nextId = @ + 1,
                       !.isTyping = TRUE,
                       !.isStoppingRef = FALSE,
                       !.timerRef = TRUE,
                       !.run[r].closure = closure,
                       !.run[r].currentConversation = closure.messages \o <<userMessage>>,
                       !.run[r].loopCount = 0]
  IN LoopTop(w3, r)

handleSend(r) ==
  /\ run[r].pc = "idle"
  /\ \A q \in Runs : q < r => run[q].pc # "idle"
  /\ \E textToSend \in {<<>>, <<"hi">>} :
       /\ SendAllowed(textToSend)
       /\ Commit(Send(W, r, textToSend))

Next ==
  \/ \E r \in Runs : handleSend(r)
  \/ handleStop
  \/ \E r \in Runs : FetchResolve(r)
  \/ \E r \in Runs : FetchReject(r)
  \/ \E r \in Runs : ErrorBody(r)
  \/ \E r \in Runs : ReadChunk(r)
  \/ \E r \in Runs : ReadEnd(r)
  \/ \E r \in Runs : ReadReject(r)
  \/ \E r \in Runs : ToolSettle(r)
  \/ \E r \in Runs : ToolReject(r)
  \/ TitleSettle
  \/ TitleFail

Spec == Init /\ [][Next]_vars

\* a pending await of run r settles: fetch, response.json(), reader.read() or
\* a tool capability
Settles(r) ==
  \/ FetchResolve(r)
  \/ FetchReject(r)
  \/ ErrorBody(r)
  \/ ReadChunk(r)
  \/ ReadEnd(r)
  \/ ReadReject(r)
  \/ ToolSettle(r)
  \/ ToolReject(r)

\* run r is suspended in an await of chat() or of a tool capability
Waiting(r) == run[r].pc \in {"fetch", "errjson", "read", "tool"}

\* every chat() call and every tool capability eventually completes or raises:
\* the runs do not stay suspended forever without any await settling (weak
\* fairness of the settling steps, which are enabled exactly while a run waits)
SpecFair ==
  Spec /\ (([]<>(\A r \in Runs : ~Waiting(r))) \/ ([]<><<\E r \in Runs : Settles(r)>>_vars))

\* ------------------------------------------- one response decoded on its own
\* The lines a response is made of: records, and text that is no record.
ChatLines ==
  { <<"{", "ca", "}">>, <<"{", "cb", "}">>, <<"{", "s", "ce", "}">>, <<"{", "s2", "}">>,
    <<"{", "t1", "}">>, <<"{", "t2", "cb", "d", "}">>, <<"{", "d", "}">>,
    <<"x">> }

\* The chunks the lines arrive in: one line, two lines, or a piece of a line.
ChatChunks ==
  { l \o <<"\n">> : l \in ChatLines }
  \cup { <<"{", "ca", "}", "\n", "{", "s", "cb", "}", "\n">>,
         <<"{", "t1", "d", "}", "\n", "{", "cb", "t2", "}", "\n">>,
         <<"{", "ca">>, <<"}", "\n">> }

RECURSIVE SeqsUpTo(_, _)
SeqsUpTo(S, n) ==
  IF n = 0 THEN {<<>>}
  ELSE LET shorter == SeqsUpTo(S, n - 1)
       IN shorter \cup {Append(q, x) : q \in {p \in shorter : Len(p) = n - 1}, x \in S}

Streams == SeqsUpTo(ChatChunks, MaxStream)

\* Run 1 has sent its first request and holds the reader of a response whose
\* chunks are fixed.
InitChat ==
  \E chunks \in Streams :
    StateIs([Send(InitW, 1, <<"hi">>) EXCEPT !.run[1].pc = "read", !.stream = chunks])

\* await reader.read() resolves with the next chunk of the response
DeliverChunk ==
  /\ run[1].pc = "read"
  /\ stream # <<>>
  /\ LET w0 == [W EXCEPT !.run[1].nReads = @ + 1,
                          !.run[1].eof = FALSE,
                          !.run[1].received = Append(@, Head(stream)),
                          !.stream = Tail(@)]
         res == ProcessLines(w0, 1, SplitLines(Head(stream)))
     IN IF res.ret THEN Commit(Return(res.w, 1)) ELSE Commit(res.w)

\* await reader.read() resolves with done at the end of the response
DeliverEnd ==
  /\ run[1].pc = "read"
  /\ stream = <<>>
  /\ Commit(EndOfStream(W, 1))

NextChat == DeliverChunk \/ DeliverEnd

SpecChat == InitChat /\ [][NextChat]_vars

\* ------------------------------------------- the same response decoded twice
\* await fetch(...) of the second pass resolves, and the server answers it with
\* the very response it gave to the first pass
Redeliver ==
  /\ run[1].pc = "fetch"
  /\ run[1].loopCount = 2
  /\ Commit([W EXCEPT !.run[1].pc = "read",
                       !.run[1].received = <<>>,
                       !.stream = run[1].received \o stream])

NextReplay ==
  \/ DeliverChunk
  \/ DeliverEnd
  \/ \E r \in Runs : ToolSettle(r)
  \/ Redeliver

SpecReplay == InitChat /\ [][NextReplay]_vars

\* ------------------------------------- an argument text normalized on its own
ArgAlphabet == {"{", "}", ",", ":", "q", "bq", "v", "null", " "}

\* the texts of n tokens
ArgTexts(n) == [1..n -> ArgAlphabet]

\* tc.function.arguments holds a text, bare or fenced, an object the server
\* parsed, or a value that is neither
InitArgs ==
  \/ \E n \in 0..MaxArgLen : \E t \in ArgTexts(n) : \E fenced \in BOOLEAN :
       StateIs([InitW EXCEPT !.parsed.input =
                  StringArg(IF fenced THEN <<"fo">> \o t \o <<"fc">> ELSE t)])
  \/ \E input \in {ObjectArg(JsonValue("object", "string")), OtherArg} :
       StateIs([InitW EXCEPT !.parsed.input = input])

\* const args = safeJsonParse(tc.function.arguments)
Normalize ==
  /\ ~parsed.done
  /\ Commit([W EXCEPT !.parsed.done = TRUE,
                       !.parsed.result = safeJsonParse(parsed.input)])

NextArgs == Normalize

SpecArgs == InitArgs /\ [][NextArgs]_vars

\* ------------------------------------------------ OllamaService.listModels
\* the entries of /api/tags as far as the classification reads them
ModelEntries == [name : {"plain", "command-r"}, family : {"llama3", "mistral", "other"}]

\* the bodies /api/show answers with: no JSON, the JSON null, an object without
\* a template (the error object of a non-success status is one), an object with
\* a template that names tools or does not
ShowBodies == {"unparsable", "null", "no template", "plain template", "tools template"}

\* what the fetch of /api/show ends with: a rejection, a response of success
\* status, or a response of another status (whose body carries no template)
ShowAnswers == {[rejected |-> TRUE, ok |-> FALSE, body |-> "none"]}
               \cup [rejected : {FALSE}, ok : {TRUE}, body : ShowBodies]
               \cup [rejected : {FALSE}, ok : {FALSE},
                     body : {"unparsable", "null", "no template"}]

NotAnswered == [rejected |-> FALSE, ok |-> FALSE, body |-> "pending"]

\* the statements of the try block raise: fetch rejects, infoResp.json() rejects,
\* or info is null and info.template is read
ShowRaises(answer) == answer.rejected \/ answer.body \in {"unparsable", "null"}

\* const hasTools = info.template?.includes(...) || ... || m.name.includes('command-r')
TemplateHeuristic(m, answer) ==
  \/ answer.body = "tools template"
  \/ m.family \in {"llama3", "mistral"}
  \/ m.name = "command-r"

\* the callback of models.map for one model, once its /api/show fetch has ended
ClassifyModel(m, answer) ==
  IF ShowRaises(answer) THEN FALSE ELSE TemplateHeuristic(m, answer)

\* listModels() is called
InitModels == StateIs([InitW EXCEPT !.listing.pc = "tags"])

\* await fetch(/api/tags) resolves: a non-success status raises, otherwise every
\* listed model gets its /api/show request
TagsResolve ==
  /\ listing.pc = "tags"
  /\ \E ok \in BOOLEAN : \E n \in 0..MaxModels : \E ms \in [1..n -> ModelEntries] :
        Commit([W EXCEPT !.listing =
                  IF ~ok THEN [@ EXCEPT !.pc = "failed"]
                  ELSE [pc |-> IF n = 0 THEN "returned" ELSE "show",
                        models |-> ms,
                        answers |-> [i \in 1..n |-> NotAnswered],
                        hasTools |-> [i \in 1..n |-> FALSE]]])

\* await fetch(/api/tags) rejects
TagsReject ==
  /\ listing.pc = "tags"
  /\ Commit([W EXCEPT !.listing.pc = "failed"])

\* the /api/show request of model i ends; Promise.all resolves with the last one
ShowSettle(i) ==
  /\ listing.pc = "show"
  /\ i \in 1..Len(listing.models)
  /\ listing.answers[i] = NotAnswered
  /\ \E answer \in ShowAnswers :
        LET l1 == [listing EXCEPT
                     !.answers[i] = answer,
                     !.hasTools[i] = ClassifyModel(listing.models[i], answer)]
            all == \A j \in 1..Len(l1.answers) : l1.answers[j] # NotAnswered
        IN Commit([W EXCEPT !.listing =
                     [l1 EXCEPT !.pc = IF all THEN "returned" ELSE "show"]])

NextModels ==
  \/ TagsResolve
  \/ TagsReject
  \/ \E i \in 1..MaxModels : ShowSettle(i)

SpecModels == InitModels /\ [][NextModels]_vars

\* ------------------------------------------ testConnection, checkConnection
\* how the fetch of the probe ends: a response of success status or of another
\* status, a rejection, or the abort of the 1500 ms timer
ProbeOutcomes == {"ok", "not ok", "rejected", "timeout"}

\* try { ...; return response.ok } catch (e) { return false }
testConnection(outcome) == [raised |-> FALSE, value |-> outcome = "ok"]

\* what listModels ends with: an error, or a list of n models
ListResults == {[raised |-> TRUE, n |-> 0]} \cup [raised : {FALSE}, n : 0..MaxModels]

CheckCatchKeepsStatus(w, c) ==
  [w EXCEPT !.connection.calls[c].pc = "done",
            !.connection.calls[c].endStatus = w.connection.connectionStatus]

\* catch (e) { setConnectionStatus(ConnectionStatus.ERROR); }
CheckCatch(w, c) ==
  [w EXCEPT !.connection.connectionStatus = "ERROR",
            !.connection.calls[c].pc = "done",
            !.connection.calls[c].endStatus = "ERROR"]

\* the component is mounted; no check has run
InitConnect == StateIs(InitW)

\* checkConnection() up to the await of testConnection()
checkConnection(c) ==
  /\ connection.calls[c].pc = "idle"
  /\ \A b \in 1..(c - 1) : connection.calls[b].pc # "idle"
  /\ Commit([W EXCEPT !.connection.connectionStatus = "CONNECTING",
                       !.connection.calls[c].pc = "probe",
                       !.connection.calls[c].selectedModel = connection.selectedModel])

\* testConnection() settles: the statements up to the await of listModels()
ProbeSettle(c) ==
  /\ connection.calls[c].pc = "probe"
  /\ \E outcome \in ProbeOutcomes :
        LET res == testConnection(outcome)
            w0  == [W EXCEPT !.connection.calls[c].probe = outcome,
                             !.connection.calls[c].probeRaised = res.raised,
                             !.connection.calls[c].ok = ~res.raised /\ res.value]
        IN Commit(IF res.raised
                  THEN CheckCatch(w0, c)
                  ELSE IF res.value
                  THEN [w0 EXCEPT !.connection.connectionStatus = "CONNECTED",
                                  !.connection.calls[c].pc = "listing"]
                  ELSE [w0 EXCEPT !.connection.connectionStatus = "ERROR",
                                  !.connection.calls[c].pc = "done",
                                  !.connection.calls[c].endStatus = "ERROR"])

\* listModels() settles: setModels, setSelectedModel, or the catch block
ListSettle(c) ==
  /\ connection.calls[c].pc = "listing"
  /\ \E res \in ListResults :
        IF res.raised
        THEN Commit(CheckCatch([W EXCEPT !.connection.calls[c].listed = "raised"], c))
        ELSE Commit([W EXCEPT
               !.connection.models = res.n,
               !.connection.selectedModel =
                  IF res.n > 0 /\ connection.calls[c].selectedModel = ""
                  THEN "first" ELSE @,
               !.connection.calls[c].listed = "returned",
               !.connection.calls[c].pc = "done",
               !.connection.calls[c].endStatus = connection.connectionStatus])

NextConnect ==
  \/ \E c \in 1..MaxChecks : checkConnection(c)
  \/ \E c \in 1..MaxChecks : ProbeSettle(c)
  \/ \E c \in 1..MaxChecks : ListSettle(c)

SpecConnect == InitConnect /\ [][NextConnect]_vars

\* -------------------------------------------------------- geminiService
\* what ai.models.generateContent ends with: a response whose text is a text,
\* only white space, empty or undefined, or a rejection
Backends == {"text", "blank", "empty", "undefined", "rejects"}

\* response.candidates?.[0]?.groundingMetadata?.groundingChunks: absent, chunks
\* with a web uri, chunks without one, or a list that holds null
Groundings == {"absent", "uris", "no uris", "null chunk"}

\* the argument: a prompt or query, or (generateTitle) a message list, maybe empty
Inputs == {"given", "empty list"}

Env == [apiKey : BOOLEAN, backend : Backends, sources : Groundings, input : Inputs]

Returns(text) == [raised |-> FALSE, text |-> text]
Raises(message) == [raised |-> TRUE, text |-> message]

\* response.text.trim(): raises on undefined
TrimText(backend) ==
  IF backend = "undefined" THEN Raises("TypeError")
  ELSE Returns(IF backend = "text" THEN "text" ELSE "")

\* the try block of optimizePrompt
OptimizeTry(env) ==
  IF env.backend = "rejects" THEN Raises("backend")
  ELSE LET t == TrimText(env.backend)
       IN IF t.raised THEN t
          ELSE Returns(IF t.text # "" THEN "optimized" ELSE "prompt")

\* optimizePrompt(prompt)
optimizePrompt(env) ==
  IF ~env.apiKey THEN Returns("prompt")
  ELSE LET t == OptimizeTry(env) IN IF t.raised THEN Returns("prompt") ELSE t

\* the try block of generateTitle
TitleTry(env) ==
  IF env.backend = "rejects" THEN Raises("backend")
  ELSE LET t == TrimText(env.backend)
       IN IF t.raised THEN t
          ELSE Returns(IF t.text # "" THEN "title" ELSE "Chat Session")

\* generateTitle(messages)
generateTitle(env) ==
  IF ~env.apiKey \/ env.input = "empty list" THEN Returns("New Chat")
  ELSE LET t == TitleTry(env) IN IF t.raised THEN Returns("Chat Session") ELSE t

\* the try block of searchWeb
SearchTry(env) ==
  IF env.backend = "rejects" THEN Raises("backend")
  ELSE IF env.sources = "null chunk" THEN Raises("TypeError")
  ELSE Returns("Search results")

searchWebUncaught(env) ==
  IF ~env.apiKey THEN Returns("Search failed") ELSE SearchTry(env)

\* searchWeb(query)
searchWeb(env) ==
  IF ~env.apiKey THEN Returns("Search failed")
  ELSE LET t == SearchTry(env) IN IF t.raised THEN Returns("Search error") ELSE t

Capabilities == {"searchWeb", "generateTitle", "optimizePrompt"}

\* a capability is about to be called
InitCaps ==
  \E fn \in Capabilities : \E env \in Env :
    StateIs([InitW EXCEPT !.capability.fn = fn, !.capability.env = env])

\* the call settles
CallCapability ==
  /\ ~capability.done
  /\ Commit([W EXCEPT !.capability.done = TRUE,
                       !.capability.result =
                          CASE capability.fn = "searchWeb" -> searchWeb(capability.env)
                            [] capability.fn = "generateTitle" -> generateTitle(capability.env)
                            [] OTHER -> optimizePrompt(capability.env)])

NextCaps == CallCapability

SpecCaps == InitCaps /\ [][NextCaps]_vars

\* ================================================================= claims
RECURSIVE Concat(_)
Concat(ss) == IF ss = <<>> THEN <<>> ELSE Head(ss) \o Concat(Tail(ss))

\* position and content of the session message with the given id
Pos(msgs, id) == CHOOSE i \in 1..Len(msgs) : msgs[i].id = id
ContentAt(msgs, id) == msgs[Pos(msgs, id)].content

\* C1: the concatenation of the deltas passed to the content callback equals the
\* content chat() returns, and each delta is the content of one record, never
\* the cumulative string.
C1_DeltasMakeContent ==
  \A r \in Runs :
    /\ Concat(run[r].deltas) = run[r].fullContent
    /\ run[r].deltas = run[r].recContents
    /\ run[r].returns > 0 =>
         /\ Concat(run[r].retDeltas) = run[r].response.content
         /\ run[r].retDeltas = run[r].retRecContents

C1_Witness ==
  \E r \in Runs :
    /\ run[r].returns > 0
    /\ run[r].nRecords = 3
    /\ run[r].retDeltas = <<<<"a">>, <<"b">>, <<"b">>>>
    /\ run[r].response.content = <<"a", "b", "b">>

\* C2: a run never issues more than MAX_LOOPS chat() calls; a finished run that was
\* not cancelled and whose every pass returned tool calls issued exactly MAX_LOOPS
\* calls and ended in LoopExhausted.
C2_PassCap ==
  \A r \in Runs :
    /\ run[r].chatCalls <= MAX_LOOPS
    /\ (/\ run[r].pc = "done"
        /\ run[r].outcome # "Cancelled"
        /\ run[r].toolPasses = run[r].chatCalls)
       => (run[r].chatCalls = MAX_LOOPS /\ run[r].outcome = "LoopExhausted")

C2_Witness ==
  \E r \in Runs :
    /\ run[r].pc = "done"
    /\ run[r].outcome = "LoopExhausted"
    /\ run[r].toolPasses = MAX_LOOPS
    /\ run[r].chatCalls = MAX_LOOPS

\* C3: a run that handleStop cancelled while it awaited a tool capability, and
\* that a new handleSend overtook before the capability completed, appends no tool
\* message, creates no placeholder and issues no chat() call after the stop.
C3_CancelledRunStaysQuiet ==
  \A r \in Runs :
    run[r].overtaken =>
      /\ run[r].nToolMsgs = run[r].atStop.nToolMsgs
      /\ run[r].placeholders = run[r].atStop.placeholders
      /\ run[r].chatCalls = run[r].atStop.chatCalls

\* C4: at most one run of executeAgentLoop is active (started and not yet past
\* its teardown) at any time.
C4_OneActiveRun == Cardinality({r \in Runs : Active(r)}) <= 1

\* C5: if the abort signal of a pass fires before any record of the pass has been
\* decoded, the content callback is never invoked in that pass, the run ends
\* Cancelled and the placeholder's content is not turned into an error message.
C5_AbortBeforeRecordCancels ==
  \A r \in Runs :
    (/\ run[r].pc = "done"
     /\ run[r].stopPc \in {"fetch", "errjson", "read"}
     /\ run[r].signal \in aborted
     /\ run[r].atStop.chatCalls = run[r].chatCalls
     /\ run[r].atStop.nRecords = 0)
    => /\ run[r].deltas = <<>>
       /\ run[r].outcome = "Cancelled"
       /\ ContentAt(sessions.messages, run[r].assistantId) = <<>>

\* C6: a run whose cancellation was requested while its chat() call was in flight
\* ends Cancelled, whatever error that call then raises; it is never Failed and
\* its placeholder never shows an error.
C6_CancellationFirst ==
  \A r \in Runs :
    (/\ run[r].pc = "done"
     /\ run[r].stopPc \in {"fetch", "errjson", "read"}
     /\ run[r].atStop.chatCalls = run[r].chatCalls
     /\ run[r].err # NoError)
    => /\ run[r].outcome = "Cancelled"
       /\ ContentAt(sessions.messages, run[r].assistantId) # ErrorText(run[r].err)

\* C7: when a chat() call raises an error that is not the cancellation condition,
\* the step that handles it sets the pass's placeholder to "Error: <message>" and
\* ends the run Failed without invoking a tool or issuing a chat() call; a Failed
\* run never acts again and its error message stays.
C7_FailureEndsRun ==
  [][\A r \in Runs :
       /\ (run[r].err = NoError /\ run'[r].err.name \notin {"none", "AbortError"})
          => /\ run'[r].pc = "done"
             /\ run'[r].outcome = "Failed"
             /\ ContentAt(sessions'.messages, run[r].assistantId) = ErrorText(run'[r].err)
             /\ run'[r].nInvoked = run[r].nInvoked
             /\ run'[r].chatCalls = run[r].chatCalls
             /\ run'[r].placeholders = run[r].placeholders
       /\ run[r].outcome = "Failed"
          => /\ run'[r] = run[r]
             /\ ContentAt(sessions'.messages, run[r].assistantId) = ErrorText(run[r].err)
    ]_vars

C7_Witness ==
  \E r \in Runs :
    /\ run[r].outcome = "Failed"
    /\ run[r].err.message = <<"model not found">>
    /\ ContentAt(sessions.messages, run[r].assistantId) = <<"Error: ", "model not found">>

\* C8: on a non-success status the failure raised carries the error field of the
\* body when there is one and the status-coded message otherwise; on a missing
\* body a failure is raised; in both cases no content or status callback ran.
C8_RequestFailedMessage ==
  \A r \in Runs :
    /\ run[r].errorField # "unread" =>
         /\ run[r].err.message = IF run[r].errorField = "error_field"
                                 THEN <<"model not found">> ELSE StatusCoded
         /\ run[r].deltas = <<>>
         /\ run[r].nStatus = 0
    /\ run[r].err.message = <<"No body">> =>
         /\ run[r].outcome = "Failed"
         /\ run[r].deltas = <<>>
         /\ run[r].nStatus = 0

\* C9: when the chat() call of pass n+1 is issued, every tool call returned by
\* pass n has exactly one tool message, in the order of the calls, in the
\* conversation and in the session (before the new placeholder), and the
\* capabilities were invoked in that order.
C9_ToolResultsInOrder ==
  \A r \in Runs :
    (InChat(r) /\ run[r].loopCount >= 2) =>
      LET tcs  == run[r].response.tool_calls
          cc   == run[r].currentConversation
          k    == Len(tcs)
          n    == Len(cc)
          tail == SubSeq(cc, n - k + 1, n)
          Mine(m) == \E i \in 1..k : tail[i].id = m.id
          Invokable(tc) == Capability(tc.name) # "none"
                           /\ ~ArgsReadThrows(safeJsonParse(tc.arguments))
          inv  == SelectSeq(tcs, Invokable)
      IN /\ k > 0 /\ n > k
         /\ cc[n - k].role = "assistant" /\ cc[n - k].tool_calls = tcs
         /\ \A i \in 1..k : tail[i].role = "tool" /\ tail[i].tool_call_id = tcs[i].id
         /\ SelectSeq(sessions.messages, Mine) = tail
         /\ \A i \in 1..k : Pos(sessions.messages, tail[i].id)
                              < Pos(sessions.messages, run[r].assistantId)
         /\ run[r].invoked = [i \in 1..Len(inv) |-> inv[i].id]

C9_Witness ==
  \E r \in Runs :
    /\ run[r].pc = "fetch"
    /\ run[r].loopCount = 2
    /\ Len(run[r].response.tool_calls) = 3
    /\ Len(run[r].toolResults) = 3

\* C10: the step in which a chat() call returns no tool calls ends the run in
\* Done without invoking a tool, appending a message or issuing a chat() call;
\* a run in Done never acts again, so that pass stays its last one.
C10_NoToolCallsIsDone ==
  [][\A r \in Runs :
       /\ (run'[r].returns > run[r].returns /\ run'[r].response.tool_calls = NoCalls)
          => /\ run'[r].pc = "done"
             /\ run'[r].outcome = "Done"
             /\ run'[r].nInvoked = run[r].nInvoked
             /\ run'[r].placeholders = run[r].placeholders
             /\ run'[r].chatCalls = run[r].chatCalls
             /\ Len(sessions'.messages) = Len(sessions.messages)
       /\ run[r].outcome = "Done"
          => /\ run'[r] = run[r]
             /\ run[r].chatCalls = run[r].returns
             /\ run[r].placeholders = run[r].chatCalls
    ]_vars

C10_Witness ==
  \E r \in Runs :
    /\ run[r].outcome = "Done"
    /\ run[r].toolPasses = 1
    /\ run[r].returns = 2

\* C11: every pass issues one chat() call, and while the call of pass n+1 is
\* in flight the conversation it was given is the conversation given to pass n,
\* then the assistant message of pass n with the content and tool calls that
\* pass returned, then one tool message per tool call in call order; the
\* request holds every tool message the run has produced.
C11_ConversationGrows ==
  \A r \in Runs :
    /\ run[r].chatCalls = run[r].loopCount
    /\ run[r].returns \in {run[r].chatCalls - 1, run[r].chatCalls}
    /\ run[r].returns = run[r].chatCalls - 1 =>
         run[r].sent = run[r].currentConversation
    /\ (run[r].chatCalls >= 2 /\ run[r].returns = run[r].chatCalls - 1) =>
         LET resp == run[r].response
             k    == Len(resp.tool_calls)
             p    == Len(run[r].prevSent)
             sent == run[r].sent
             own  == SubSeq(sent, Len(run[r].closure.messages) + 1, Len(sent))
             IsTool(m) == m.role = "tool"
         IN /\ Len(sent) = p + 1 + k
            /\ SubSeq(sent, 1, p) = run[r].prevSent
            /\ sent[p + 1].role = "assistant"
            /\ sent[p + 1].content = resp.content
            /\ sent[p + 1].tool_calls = resp.tool_calls
            /\ \A i \in 1..k : /\ sent[p + 1 + i].role = "tool"
                               /\ sent[p + 1 + i].tool_call_id = resp.tool_calls[i].id
                               /\ sent[p + 1 + i].name = resp.tool_calls[i].name
            /\ Len(SelectSeq(own, IsTool)) = run[r].nToolMsgs

C11_Witness ==
  \E r \in Runs :
    /\ run[r].chatCalls = 3
    /\ run[r].returns = 2
    /\ Len(run[r].response.tool_calls) = 3
    /\ Len(run[r].sent) = Len(run[r].prevSent) + 4
    /\ run[r].response.content = <<"b">>

\* ---- what a response is expected to decode to
\* the lines of a sequence of chunks, each chunk split on its own
RECURSIVE ChunkLines(_)
ChunkLines(chunks) ==
  IF chunks = <<>> THEN <<>>
  ELSE SplitLines(Head(chunks)) \o ChunkLines(Tail(chunks))

IsRecordLine(line) == Trim(line) # <<>> /\ Parsable(line)

RecordsOf(lines) == [i \in 1..Len(lines) |-> ParseRecord(lines[i])]

\* the records up to and including the first one marked done
UpToDone(recs) ==
  IF \E i \in 1..Len(recs) : recs[i].done
  THEN SubSeq(recs, 1, CHOOSE i \in 1..Len(recs) :
                         recs[i].done /\ \A j \in 1..(i-1) : ~recs[j].done)
  ELSE recs

HasContent(rec) == rec.content # <<>>
HasStatus(rec) == rec.status # ""

\* the result and the callbacks expected for a sequence of records
Expected(recs) ==
  LET cut == UpToDone(recs)
      withContent == SelectSeq(cut, HasContent)
      contents == [i \in 1..Len(withContent) |-> withContent[i].content]
      calls == Concat([i \in 1..Len(cut) |-> cut[i].tool_calls])
  IN [content |-> Concat(contents), tool_calls |-> calls, defined |-> calls # <<>>,
      deltas |-> contents, status |-> Len(SelectSeq(cut, HasStatus))]

\* the result of the last chat() call of run r that returned, and its callbacks
Returned(r) ==
  [content |-> run[r].response.content, tool_calls |-> run[r].response.tool_calls,
   defined |-> run[r].response.defined,
   deltas |-> run[r].retDeltas, status |-> run[r].retCounts.status]

\* C12: the tool-call list chat() returns is the tool-call entries of the
\* records of the pass, in arrival order, none dropped for being a duplicate;
\* the field is defined exactly when there is at least one entry.
C12_ToolCallsCollected ==
  \A r \in Runs :
    run[r].returns > 0 =>
      LET entries == Concat(run[r].retRecCalls)
      IN /\ Len(run[r].response.tool_calls) = Len(entries)
         /\ run[r].response.tool_calls = entries
         /\ run[r].response.defined = (Len(entries) > 0)

C12_Witness ==
  /\ run[1].returns = 1
  /\ Len(run[1].retRecCalls) = 2
  /\ run[1].response.defined
  /\ run[1].response.tool_calls = <<ToolCallOf("t1"), ToolCallOf("t1")>>

\* C13: however the response text is cut into chunks, chat() makes the
\* callbacks and returns the content and tool calls that the same text gives
\* when it arrives as one chunk.
C13_LinesReassembled ==
  run[1].returns > 0 =>
    Returned(1) =
      Expected(RecordsOf(SelectSeq(SplitLines(Concat(run[1].received \o stream)),
                                   IsRecordLine)))

\* C14: a line that does not parse raises no error and changes nothing: chat()
\* makes the callbacks and returns the result of the lines of the response
\* with the unparsable ones removed.
C14_MalformedLineSkipped ==
  /\ run[1].err = NoError
  /\ run[1].outcome # "Failed"
  /\ run[1].returns > 0 =>
       LET kept == SelectSeq(ChunkLines(run[1].received \o stream), IsRecordLine)
       IN /\ Returned(1) = Expected(RecordsOf(kept))
          /\ run[1].retCounts.records = Len(UpToDone(RecordsOf(kept)))

C14_Witness ==
  /\ run[1].returns = 1
  /\ run[1].received = << <<"x", "\n">>, <<"{", "ca", "}", "\n">>, <<"{", "d", "}", "\n">> >>
  /\ run[1].response.content = <<"a">>

\* C15: when a record is marked done, chat() returns what the records up to
\* and including it add up to, and the records after it, in the same chunk or
\* in chunks still queued, cause no callback and add nothing.
C15_DoneEndsPass ==
  LET recs == RecordsOf(SelectSeq(ChunkLines(run[1].received \o stream), IsRecordLine))
  IN (run[1].returns = 1 /\ \E i \in 1..Len(recs) : recs[i].done) =>
       LET k   == CHOOSE i \in 1..Len(recs) : recs[i].done /\ \A j \in 1..(i-1) : ~recs[j].done
           cut == SubSeq(recs, 1, k)
           IsDelta(rec) == rec.content # <<>>
       IN /\ cut[k].done
          /\ run[1].response.content = Concat([i \in 1..k |-> cut[i].content])
          /\ run[1].response.tool_calls = Concat([i \in 1..k |-> cut[i].tool_calls])
          /\ run[1].retCounts.records = k
          /\ Len(run[1].retDeltas) = Len(SelectSeq(cut, IsDelta))
          /\ run[1].retCounts.status = Len(SelectSeq(cut, HasStatus))

C15_Witness ==
  /\ run[1].returns = 1
  /\ run[1].received = << <<"{", "ca", "}", "\n">>,
                          <<"{", "t1", "d", "}", "\n", "{", "cb", "t2", "}", "\n">> >>
  /\ stream # <<>>
  /\ run[1].response.content = <<"a">>
  /\ run[1].response.tool_calls = <<ToolCallOf("t1")>>

C17_StrictRepairEmpty ==
  (parsed.done /\ parsed.input.kind = "string") =>
    LET strict == JSONParse(parsed.input.text)
        fixed  == JSONParse(QuoteBareKeys(parsed.input.text))
    IN parsed.result = IF strict.ok THEN strict.value
                       ELSE IF fixed.ok THEN fixed.value
                       ELSE EmptyObject

\* C17, amended: the first parse is made on the text with the fence markers
\* removed; the repair is made on the text as given; an object is returned as
\* it is and any other value gives the empty object; a value is always returned.
C17_FencesStrictRepairEmpty ==
  parsed.done =>
    LET text     == parsed.input.text
        unfenced == JSONParse(StripFences(text))
        fixed    == JSONParse(QuoteBareKeys(text))
    IN /\ parsed.result.type \in {"object", "null", "string"}
       /\ parsed.input.kind = "object" => parsed.result = parsed.input.value
       /\ parsed.input.kind = "other" => parsed.result = EmptyObject
       /\ parsed.input.kind = "string" =>
            /\ parsed.result = IF unfenced.ok THEN unfenced.value
                               ELSE IF fixed.ok THEN fixed.value
                               ELSE EmptyObject
            /\ text \in {<<"{", "bq", ":", "v", "}">>, <<"{", "bq", ":", " ", "v", "}">>} =>
                 parsed.result = JsonValue("object", "string")
            /\ text = <<"{", "q", ":", "v", "}">> =>
                 parsed.result = JsonValue("object", "string")
            /\ text \in {<<"}", "{">>, <<"bq">>, <<>>, <<"{", "bq", "}">>} =>
                 parsed.result = EmptyObject

C17_Witness ==
  /\ parsed.done
  /\ parsed.input = StringArg(<<"{", "bq", ":", "v", "}">>)
  /\ parsed.result = JsonValue("object", "string")

RECURSIVE InvokedByRuns(_)
\* capabilities invoked by the runs 1..n
InvokedByRuns(n) == IF n = 0 THEN 0 ELSE run[n].nInvoked + InvokedByRuns(n - 1)

\* C18: every tool message of a call that names search_web or sleep_agent is
\* the result of an invocation of the capability, whatever the argument text.
C18_RegisteredToolInvoked ==
  LET OfRegistered(m) == m.role = "tool" /\ Capability(m.name) # "none"
      msgs == SelectSeq(sessions.messages, OfRegistered)
  IN /\ \A i \in 1..Len(msgs) :
          msgs[i].content \in {<<"Search results">>, <<"Ready after wait">>,
                               <<"Tool Error: ">> \o SearchFailure.message}
     /\ Len(msgs) <= InvokedByRuns(MaxRuns)

\* C19: an error raised inside the try of a tool call is never the error a run
\* fails with; when the next pass is in flight, the call has its tool message
\* with the content "Tool Error: <message>" in the session and in the
\* conversation sent, every call of the response has its message, and the calls
\* after it that name a capability had their arguments read and, unless that
\* raised as well, the capability invoked.
C19_ToolErrorStaysInside ==
  \A r \in Runs :
    LET tcs == run[r].response.tool_calls
        Throws(tc) == Capability(tc.name) # "none"
                      /\ ArgsReadThrows(safeJsonParse(tc.arguments))
        IsToolError(e) == \/ e = SearchFailure
                          \/ \E tok \in ToolTokens : e = ArgsTypeError(ToolCallOf(tok))
    IN /\ ~IsToolError(run[r].err)
       /\ (run[r].chatCalls >= 2 /\ run[r].returns = run[r].chatCalls - 1) =>
            /\ Len(run[r].toolResults) = Len(tcs)
            /\ \A i \in 1..Len(tcs) : Throws(tcs[i]) =>
                 \E x \in 1..Len(run[r].raised) : run[r].raised[x].id = tcs[i].id
            /\ \A x \in 1..Len(run[r].raised) :
                 \E i \in 1..Len(tcs) :
                   LET tm == run[r].toolResults[i]
                   IN /\ tcs[i].id = run[r].raised[x].id
                      /\ tm.tool_call_id = tcs[i].id
                      /\ tm.content = <<"Tool Error: ">> \o run[r].raised[x].message
                      /\ \E k \in 1..Len(run[r].sent) : run[r].sent[k] = tm
                      /\ \E m \in 1..Len(sessions.messages) : sessions.messages[m] = tm
                      /\ \A j \in (i+1)..Len(tcs) :
                           (Capability(tcs[j].name) # "none" /\ ~Throws(tcs[j]))
                             => \E k \in 1..Len(run[r].invoked) :
                                  run[r].invoked[k] = tcs[j].id

C19_Witness ==
  \E r \in Runs :
    /\ run[r].pc = "fetch"
    /\ run[r].chatCalls = 2
    /\ Len(run[r].response.tool_calls) = 3
    /\ run[r].response.tool_calls[1] = ToolCallOf("t4")
    /\ run[r].toolResults[1].content =
         <<"Tool Error: ", "Cannot read properties of null (reading 'query')">>
    /\ run[r].invoked = <<"c2">>

\* C20: from the moment handleStop sets the latch while a run is active, that
\* run starts no pass (no placeholder, no chat() call), invokes no capability
\* and appends no tool message.
C20_NothingAfterLatch ==
  \A r \in Runs :
    run[r].stopPc # "none" =>
      /\ run[r].placeholders = run[r].atStop.placeholders
      /\ run[r].chatCalls = run[r].atStop.chatCalls
      /\ run[r].nInvoked = run[r].atStop.nInvoked
      /\ run[r].nToolMsgs = run[r].atStop.nToolMsgs

\* C21: a session gets exactly one title request, issued by the first run that
\* reaches Done while the session has at most 4 messages, also when the send that
\* started that run created the session.
C21_TitleRequestedOnce ==
  /\ titleReqs <= 1
  /\ (\E r \in Runs : run[r].outcome = "Done" /\ Len(sessions.messages) <= 4)
       => titleReqs = 1

\* the messages a run has added to its conversation: the user message and, for
\* every pass that ran tools, the assistant message and the tool messages
OwnMessages(r) ==
  SubSeq(run[r].currentConversation, Len(run[r].closure.messages) + 1,
         Len(run[r].currentConversation))

\* C22: the deltas of a pass are applied, in transport order, to that pass's
\* placeholder and to no other message, and the placeholder of the next pass
\* comes after every tool message of the pass before it.
C22_DeltasStayInTheirPass ==
  \A r \in Runs :
    run[r].chatCalls > 0 =>
      LET own  == OwnMessages(r)
          Folded == \E i \in 1..Len(own) : own[i].id = run[r].assistantId
          mine == IF Folded THEN own ELSE Append(own, [id |-> run[r].assistantId])
          Mine(m) == \E i \in 1..Len(mine) : mine[i].id = m.id
          sel  == SelectSeq(sessions.messages, Mine)
      IN /\ Len(sel) = Len(mine)
         /\ \A i \in 1..Len(mine) : sel[i].id = mine[i].id
         /\ \A i \in 1..Len(own) : sel[i].content = own[i].content
         /\ run[r].outcome # "Failed"
              => ContentAt(sessions.messages, run[r].assistantId) = Concat(run[r].deltas)
         /\ run[r].deltas = run[r].recContents

C22_Witness ==
  \E r \in Runs :
    /\ run[r].loopCount = 2
    /\ run[r].deltas # <<>>
    /\ \E i \in 1..Len(OwnMessages(r)) :
          /\ OwnMessages(r)[i].role = "assistant"
          /\ OwnMessages(r)[i].content # <<>>
          /\ OwnMessages(r)[i].content # Concat(run[r].deltas)

\* the /api/show request of a model failed: no answer, an error status, a body
\* that is no JSON, or an answer without the template
ShowFailed(answer) ==
  \/ answer.rejected
  \/ ~answer.ok
  \/ answer.body \in {"unparsable", "null", "no template"}

\* C23: a model whose /api/show request failed in any way is returned with
\* hasTools = false, and no such failure makes the listing fail.
C23_ShowFailureMeansNoTools ==
  /\ listing.pc = "returned" =>
        \A i \in 1..Len(listing.models) :
          ShowFailed(listing.answers[i]) => ~listing.hasTools[i]
  /\ listing.pc = "failed" => listing.answers = <<>>

\* C24: a run that ends because the pass count reached the cap carries no error,
\* and every message it appended (the placeholder of every pass, every tool
\* message) is in the session with the content the pass gave it, none replaced
\* by an error text.
C24_ExhaustedKeepsAnswer ==
  \A r \in Runs :
    run[r].outcome = "LoopExhausted" =>
      LET own == OwnMessages(r)
          Mine(m) == \E i \in 1..Len(own) : own[i].id = m.id
      IN /\ run[r].err = NoError
         /\ run[r].placeholders = MAX_LOOPS
         /\ Len(own) = 1 + run[r].placeholders + run[r].nToolMsgs
         /\ SelectSeq(sessions.messages, Mine) = own
         /\ \A i \in 1..Len(own) :
              own[i].content = <<>> \/ Head(own[i].content) # "Error: "

C24_Witness ==
  \E r \in Runs :
    /\ run[r].outcome = "LoopExhausted"
    /\ run[r].nToolMsgs = MAX_LOOPS
    /\ \E i \in 1..Len(sessions.messages) :
          /\ sessions.messages[i].role = "tool"
          /\ sessions.messages[i].content # <<>>

StatusOnly(rec) ==
  rec.status # "" /\ rec.content = <<>> /\ rec.tool_calls = <<>> /\ ~rec.done

NotStatusOnly(rec) == ~StatusOnly(rec)

\* C25: the status callback is called with the status of each record that has
\* one, unchanged and in order, and a record that carries only a status changes
\* nothing else: chat() returns the content and tool calls, and makes the content
\* callbacks, of the response without those records.
C25_StatusForwardedOnly ==
  run[1].returns > 0 =>
    LET lines == SelectSeq(ChunkLines(run[1].received \o stream), IsRecordLine)
        recs  == RecordsOf(lines)
        with  == SelectSeq(UpToDone(recs), HasStatus)
        rest  == Expected(SelectSeq(recs, NotStatusOnly))
    IN /\ run[1].retStatuses = [i \in 1..Len(with) |-> with[i].status]
       /\ run[1].response.content = rest.content
       /\ run[1].response.tool_calls = rest.tool_calls
       /\ run[1].retDeltas = rest.deltas

C25_Witness ==
  /\ run[1].returns = 1
  /\ run[1].retStatuses = <<"verifying", "pulling">>
  /\ run[1].response.content = <<"a", "a", "b">>
  /\ run[1].received = << <<"{", "ca", "}", "\n">>, <<"{", "s2", "}", "\n">>,
                          <<"{", "ca", "}", "\n", "{", "s", "cb", "}", "\n">> >>

RECURSIVE AppendedByRuns(_)
\* the messages the runs 1..n account for: a user message per run started, a
\* placeholder per chat() call, and the tool messages
AppendedByRuns(n) ==
  IF n = 0 THEN [user |-> 0, assistant |-> 0, tool |-> 0]
  ELSE LET rest == AppendedByRuns(n - 1)
       IN [user |-> rest.user + (IF run[n].pc = "idle" THEN 0 ELSE 1),
           assistant |-> rest.assistant + run[n].chatCalls,
           tool |-> rest.tool + run[n].nToolMsgs]

IsAssistant(m) == m.role = "assistant"

\* C26: when a chat() call is issued its placeholder, an assistant message with
\* empty content, is already in the session; the session holds one assistant
\* message per chat() call issued, and streamed content adds no message.
C26_PlaceholderPerPass ==
  LET msgs == sessions.messages
      all  == AppendedByRuns(MaxRuns)
  IN /\ Len(SelectSeq(msgs, IsAssistant)) = all.assistant
     /\ Len(msgs) = all.user + all.assistant + all.tool
     /\ \A r \in Runs :
          run[r].pc = "fetch" =>
            /\ \E i \in 1..Len(msgs) : msgs[i].id = run[r].assistantId
            /\ msgs[Pos(msgs, run[r].assistantId)] = Msg(run[r].assistantId, "assistant", <<>>)
            /\ run[r].deltas = <<>>

C26_Witness ==
  \E r \in Runs :
    /\ run[r].pc = "read"
    /\ run[r].chatCalls = 2
    /\ Len(run[r].deltas) = 1
    /\ ContentAt(sessions.messages, run[r].assistantId) = <<"a">>
    /\ Len(SelectSeq(sessions.messages, IsAssistant)) = 2

\* C27: while the capability of call i of a pass is running, the tool message of
\* every earlier call of the pass is already in the session, after the pass's
\* placeholder and in the order of the calls.
C27_ToolMessagesNotBatched ==
  \A r \in Runs :
    run[r].pc = "tool" =>
      LET tcs  == run[r].response.tool_calls
          done == run[r].toolResults
          msgs == sessions.messages
          Mine(m) == \E j \in 1..Len(done) : done[j].id = m.id
      IN /\ Len(done) = run[r].tcIdx - 1
         /\ \A j \in 1..Len(done) : done[j].tool_call_id = tcs[j].id
         /\ SelectSeq(msgs, Mine) = done
         /\ \A k \in 1..Len(msgs) :
              Mine(msgs[k]) => k > Pos(msgs, run[r].assistantId)

C27_Witness ==
  \E r \in Runs :
    /\ run[r].pc = "tool"
    /\ run[r].tcIdx = 2
    /\ Len(run[r].response.tool_calls) = 3
    /\ \E k \in 1..Len(sessions.messages) :
          /\ sessions.messages[k].role = "tool"
          /\ sessions.messages[k] = run[r].toolResults[1]

\* C28: the step that issues a title request is the step in which a run ends
\* Done and is torn down, with the request left pending; a step in which a run
\* ends otherwise issues none; and the settling of a title request, with a title
\* or with a failure, changes no run and nothing but the session title.
C28_TitleNeverAwaited ==
  [][/\ titleReqs' > titleReqs =>
          /\ titleReqs' = titleReqs + 1
          /\ titlePending' = titlePending + 1
          /\ ~isTyping'
          /\ \E r \in Runs : /\ run[r].outcome = "none"
                              /\ run'[r].outcome = "Done"
                              /\ run'[r].pc = "done"
     /\ \A r \in Runs :
          (run'[r].outcome # run[r].outcome /\ run'[r].outcome # "Done")
            => titleReqs' = titleReqs
     /\ titlePending' < titlePending =>
          /\ run' = run
          /\ sessions'.messages = sessions.messages
          /\ sessions'.exists = sessions.exists
          /\ UNCHANGED <<currentSessionId, isTyping, isStoppingRef, abortControllerRef,
                         aborted, activeTool, serverStatus, statusMessage, timerRef,
                         nextId, titleReqs, toolCallsSent, toolRejects, stream>>]_vars

C28_Witness ==
  \E r \in Runs :
    /\ run[r].outcome = "Done"
    /\ run[r].pc = "done"
    /\ titleReqs = 1
    /\ titlePending = 1
    /\ ~isTyping
    /\ sessions.title = "New Conversation"

\* C29: while a chat() call of an active run is in flight, the signal passed to
\* it is the one handleStop aborts, and a call in flight when handleStop was
\* invoked has ended with the cancellation condition.
C29_StopAbortsTheCall ==
  \A r \in Runs :
    /\ (InChat(r) /\ isTyping) => run[r].signal = abortControllerRef
    /\ (run[r].stopPc \in {"fetch", "errjson", "read"}
        /\ run[r].atStop.chatCalls = run[r].chatCalls)
         => /\ run[r].signal \in aborted
            /\ run[r].pc = "done"
            /\ run[r].err = AbortError

\* message k of msgs is a tool message that an earlier assistant message of msgs
\* asked for: that message lists a call with its tool_call_id and its name
Answers(msgs, k) ==
  \E j \in 1..(k - 1) :
    /\ msgs[j].role = "assistant"
    /\ \E i \in 1..Len(msgs[j].tool_calls) :
          /\ msgs[j].tool_calls[i].id = msgs[k].tool_call_id
          /\ msgs[j].tool_calls[i].name = msgs[k].name

\* C30: every tool message, in the session and in a run's conversation, carries
\* the id and the function name of a tool call of an assistant message before
\* it; that assistant message is there whether or not it has content.
C30_ToolMessagesLabelled ==
  /\ \A k \in 1..Len(sessions.messages) :
        sessions.messages[k].role = "tool" => Answers(sessions.messages, k)
  /\ \A r \in Runs : \A k \in 1..Len(OwnMessages(r)) :
        OwnMessages(r)[k].role = "tool" => Answers(OwnMessages(r), k)

C30_Witness ==
  \E r \in Runs :
    /\ run[r].pc = "read"
    /\ \E k \in 2..Len(run[r].sent) :
          /\ run[r].sent[k].role = "tool"
          /\ run[r].sent[k].tool_call_id = "c1"
          /\ run[r].sent[k].name = "search_web"
          /\ run[r].sent[k-1].role = "assistant"
          /\ run[r].sent[k-1].content = <<>>
          /\ run[r].sent[k-1].tool_calls = <<ToolCallOf("t1")>>

\* C31: testConnection returns false, and raises nothing, however its fetch
\* fails; an invocation of checkConnection whose probe or listing failed ends with
\* connectionStatus = ERROR, one that ends with CONNECTED had both succeed, and
\* the listing is not attempted after a failed probe.
C31_FailureIsAStatus ==
  \A c \in 1..MaxChecks :
    LET call == connection.calls[c] IN
      /\ ~call.probeRaised
      /\ call.probe \in {"not ok", "rejected", "timeout"}
           => /\ ~call.ok
              /\ call.pc = "done"
              /\ call.listed = "none"
              /\ call.endStatus = "ERROR"
      /\ call.listed = "raised" => call.pc = "done" /\ call.endStatus = "ERROR"
      /\ call.endStatus = "CONNECTED" => call.ok /\ call.listed = "returned"
      /\ call.pc = "done" => call.endStatus \in {"ERROR", "CONNECTED", "CONNECTING"}

C31_Witness ==
  /\ connection.calls[1].probe = "timeout"
  /\ connection.calls[1].endStatus = "ERROR"
  /\ connection.calls[2].listed = "raised"
  /\ connection.calls[2].endStatus = "ERROR"
  /\ connection.connectionStatus = "ERROR"

\* C32: searchWeb, generateTitle and optimizePrompt return a text and raise
\* nothing on every path: without an API key and on a backend failure they
\* return an error text, a fallback title and the original prompt.
C32_CapabilitiesReturnText ==
  capability.done =>
    LET env == capability.env
        res == capability.result
        fn  == capability.fn
    IN /\ ~res.raised
       /\ res.text \in {"Search results", "Search failed", "Search error", "title",
                         "New Chat", "Chat Session", "optimized", "prompt"}
       /\ ~env.apiKey =>
            res.text = CASE fn = "searchWeb" -> "Search failed"
                         [] fn = "generateTitle" -> "New Chat"
                         [] OTHER -> "prompt"
       /\ (env.apiKey /\ env.backend = "rejects" /\ env.input = "given") =>
            res.text = CASE fn = "searchWeb" -> "Search error"
                         [] fn = "generateTitle" -> "Chat Session"
                         [] OTHER -> "prompt"

C32_Witness ==
  /\ capability.done
  /\ capability.fn = "searchWeb"
  /\ capability.env.apiKey
  /\ capability.env.backend = "rejects"
  /\ capability.result = Returns("Search error")

\* C33: if every pending await settles, every started run reaches the statements
\* after its loop and stays there (from some point on every run is either not
\* started or past its loop), and the step in which a run reaches them leaves isTyping
\* false, activeTool and serverStatus null and the status text 'Idle'.
C33_RunReachesTeardown ==
  /\ <>[](\A r \in Runs : run[r].pc \in {"idle", "done"})
  /\ [][\A r \in Runs :
          (run[r].pc # "done" /\ run'[r].pc = "done")
            => /\ run'[r].outcome \in {"Done", "Cancelled", "Failed", "LoopExhausted"}
               /\ ~isTyping'
               /\ activeTool' = "none"
               /\ serverStatus' = "none"
               /\ statusMessage' = "Idle"
               /\ ~timerRef']_vars

C33_Witness ==
  \E r \in Runs :
    /\ run[r].pc = "done"
    /\ run[r].outcome = "Cancelled"
    /\ run[r].stopPc = "tool"
    /\ ~isTyping
    /\ statusMessage = "Idle"

\* the tool calls of message j of conv are answered right after it, one tool
\* message per call, in the order of the calls
Answered(conv, j) ==
  LET tcs == conv[j].tool_calls
  IN /\ j + Len(tcs) <= Len(conv)
     /\ \A i \in 1..Len(tcs) :
          /\ conv[j + i].role = "tool"
          /\ conv[j + i].tool_call_id = tcs[i].id
     /\ j + Len(tcs) < Len(conv) => conv[j + Len(tcs) + 1].role # "tool"

\* C34: in the conversation of every chat() request, every tool call of an
\* assistant message is followed by exactly one tool message with its id.
C34_SentCallsAnswered ==
  \A r \in Runs :
    run[r].chatCalls > 0 =>
      \A j \in 1..Len(run[r].sent) :
        run[r].sent[j].role = "assistant" => Answered(run[r].sent, j)

\* the fields of a message that the comparison looks at
Shown(m) == [role |-> m.role, content |-> m.content, tool_calls |-> m.tool_calls,
             tool_call_id |-> m.tool_call_id]

\* C35: at each chat() call of a run, the conversation passed equals the
\* session's message list without the placeholder just created for the pass,
\* compared on role, content, tool calls and tool_call_id.
C35_ConversationIsSession ==
  [][\A r \in Runs :
       run'[r].chatCalls > run[r].chatCalls =>
         LET NotPlaceholder(m) == m.id # run'[r].assistantId
             rest == SelectSeq(sessions'.messages, NotPlaceholder)
             conv == run'[r].sent
         IN /\ Len(rest) = Len(conv)
            /\ \A i \in 1..Len(rest) : Shown(rest[i]) = Shown(conv[i])]_vars

\* C36: when the response ends without a record marked done, chat() returns the
\* content and the tool calls accumulated so far, the tool calls absent if there
\* are none, and raises nothing; the loop then ends the run Done if there are no
\* tool calls and runs the tool calls otherwise.
C36_EndWithoutDone ==
  [][\A r \in Runs :
       (run'[r].returns > run[r].returns /\ run'[r].eof) =>
         /\ run'[r].err = NoError
         /\ run'[r].response.content = run[r].fullContent
         /\ run'[r].response.tool_calls = run[r].toolCalls
         /\ run'[r].response.defined = (run[r].toolCalls # <<>>)
         /\ run[r].toolCalls = <<>>
              => run'[r].pc = "done" /\ run'[r].outcome = "Done"
         /\ (run[r].toolCalls # <<>> /\ ~isStoppingRef)
              => /\ run'[r].tcIdx >= 1
                 /\ run'[r].outcome \in {"none", "LoopExhausted"}
                 /\ \/ run'[r].pc = "tool"
                    \/ run'[r].nToolMsgs = run[r].nToolMsgs + Len(run[r].toolCalls)]_vars

C36_Witness ==
  \E r \in Runs :
    /\ run[r].eof
    /\ run[r].returns = 1
    /\ Len(run[r].response.tool_calls) = 3
    /\ run[r].response.content = <<"b">>
    /\ run[r].pc = "tool"
    /\ run[r].tcIdx = 2

\* C37: a run that ends at the pass cap has, on its last pass, run every tool
\* call the model returned and appended one tool message per call to the
\* session; these tool messages come after the fifth assistant message, and no
\* chat() call of the run was given them.
C37_LastPassToolsRun ==
  \A r \in Runs :
    run[r].outcome = "LoopExhausted" =>
      LET tcs  == run[r].response.tool_calls
          own  == OwnMessages(r)
          n    == Len(tcs)
          last == SubSeq(own, Len(own) - n + 1, Len(own))
      IN /\ run[r].chatCalls = MAX_LOOPS
         /\ Len(own) > n
         /\ own[Len(own) - n].id = run[r].assistantId
         /\ own[Len(own) - n].tool_calls = tcs
         /\ \A i \in 1..n :
              /\ last[i].role = "tool"
              /\ last[i].tool_call_id = tcs[i].id
              /\ \E j \in 1..Len(sessions.messages) : sessions.messages[j] = last[i]
              /\ \A k \in 1..Len(run[r].sent) : run[r].sent[k].id # last[i].id
              /\ (Capability(tcs[i].name) # "none"
                    /\ ~ArgsReadThrows(safeJsonParse(tcs[i].arguments)))
                   => \E k \in 1..Len(run[r].invoked) : run[r].invoked[k] = tcs[i].id

C37_Witness ==
  \E r \in Runs :
    /\ run[r].outcome = "LoopExhausted"
    /\ run[r].loopCount = MAX_LOOPS
    /\ run[r].invoked = <<"c1">>
    /\ sessions.messages[Len(sessions.messages)].role = "tool"
    /\ sessions.messages[Len(sessions.messages)].tool_call_id = "c1"
    /\ sessions.messages[Len(sessions.messages)].content # <<>>

\* C38: a tool call whose name is neither search_web nor sleep_agent, once the
\* for loop reaches it, invokes no capability and appends exactly one tool
\* message for the call, with empty content; the loop goes on with the next
\* call, or with the next pass when the call was the last one.
C38_UnknownToolAnswersEmpty ==
  [][\A r \in Runs : \A i \in 1..Len(run'[r].response.tool_calls) :
       LET tcs == run'[r].response.tool_calls
           IsAnswer(m) == m.role = "tool" /\ m.tool_call_id = tcs[i].id
           reached ==
             /\ ~isStoppingRef
             /\ run'[r].response.defined
             /\ i <= run'[r].tcIdx
             /\ \/ run'[r].returns > run[r].returns
                \/ /\ run'[r].returns = run[r].returns
                   /\ run[r].pc = "tool"
                   /\ run'[r] # run[r]
                   /\ run[r].tcIdx < i
       IN (reached /\ tcs[i].name \notin {"search_web", "sleep_agent"}) =>
            /\ \A k \in 1..Len(run'[r].invoked) : run'[r].invoked[k] # tcs[i].id
            /\ Len(run'[r].toolMsgs) >= i
            /\ run'[r].toolMsgs[i] = tcs[i].id
            /\ run'[r].toolResults[i].content = <<>>
            /\ run'[r].toolResults[i].name = tcs[i].name
            /\ \E j \in 1..Len(sessions'.messages) :
                 sessions'.messages[j] = run'[r].toolResults[i]
            /\ Len(SelectSeq(sessions'.messages, IsAnswer))
                 = Len(SelectSeq(sessions.messages, IsAnswer)) + 1
            /\ i < Len(tcs) => run'[r].tcIdx > i
            /\ i = Len(tcs) =>
                 \/ run'[r].pc = "fetch" /\ run'[r].chatCalls = run[r].chatCalls + 1
                 \/ run'[r].outcome = "LoopExhausted"]_vars

C38_Witness ==
  \E r \in Runs :
    /\ run[r].pc = "fetch"
    /\ run[r].chatCalls = 2
    /\ run[r].toolMsgs = <<"c4", "c2", "c3">>
    /\ run[r].invoked = <<"c2">>
    /\ run[r].toolResults[3].name = "other_tool"
    /\ run[r].toolResults[3].content = <<>>
    /\ sessions.messages[Len(sessions.messages) - 1] = run[r].toolResults[3]

\* C39: cancellation removes and rewrites no message of the session: a step of
\* handleStop, and a step in which a run ends Cancelled, leave the message list
\* as it was, the placeholder of the pass holding what was streamed into it.
C39_CancellationKeepsMessages ==
  [][/\ handleStop => sessions'.messages = sessions.messages
     /\ \A r \in Runs :
          (run[r].pc # "done" /\ run'[r].pc = "done" /\ run'[r].outcome = "Cancelled")
            => /\ sessions'.messages = sessions.messages
               /\ run[r].placeholders > 0 =>
                    ContentAt(sessions'.messages, run[r].assistantId)
                      = Concat(run[r].deltas)]_vars
====
